---- MODULE Spec2Model ----
(***************************************************************************)
(* Verification model of three pieces of the anchor-web-app front end:     *)
(*                                                                         *)
(*  1. queryOptions.fetchClient (src/unnamed/part_001): post a             *)
(*     transaction, then poll the indexer until the transaction is         *)
(*     indexed, fails, or the abort signal is seen.                        *)
(*  2. dataMap.interestEarned                                              *)
(*     (src/app/src/pages/earn/queries/interestEarned.ts): the pure        *)
(*     interest computation over the GraphQL records.                      *)
(*  3. sellFromSimulation (same file, lines 304-334): the fees and the     *)
(*     minimum received of a simulated swap.                               *)
(*                                                                         *)
(* An async function runs without interruption between two awaits (the     *)
(* JavaScript event loop is single threaded), so every action of the       *)
(* fetchClient part is one such run: from the settling of an awaited       *)
(* promise to the next await, return or throw.  The abort signal and the   *)
(* indexer are the environment; they change between those runs.            *)
(***************************************************************************)
EXTENDS Integers, Sequences, FiniteSets, TLC

VARIABLES
    pc,          \* fetchClient: "post" | "query" | "sleep" | "returned" | "thrown"
    aborted,     \* signal.aborted
    txResult,    \* the value the awaited post resolved with (NoTxResult before)
    txInfos,     \* parsedData of the last settled queryTxInfo
    queriedHash, \* the txhash argument of the last queryTxInfo call
    indexer,     \* environment: the records the indexer holds for the posted tx
    log,         \* the calls fetchClient made, in order (first MaxLog of them)
    error,       \* the thrown value (NoError while none)
    ret,         \* the returned value (NoReturn while none)
    rawData,     \* interestEarned: the RawData argument
    earned,      \* interestEarned: the outcome (Pending before the call)
    saleArgs,    \* sellFromSimulation: the arguments
    sold         \* sellFromSimulation: the outcome (PendingSale before the call)

fetchVars == <<pc, aborted, txResult, txInfos, queriedHash, indexer, log, error, ret>>

earnVars == <<rawData, earned>>

sellVars == <<saleArgs, sold>>

vars == <<pc, aborted, txResult, txInfos, queriedHash, indexer, log, error, ret,
          rawData, earned, saleArgs, sold>>

----------------------------------------------------------------------------
(* Bounds of the model *)

\* longest list of records the indexer returns
MaxInfos == 2

\* number of calls the log keeps; later calls are made but not logged
MaxLog == 7

\* the argument of sleep(...) in the poll loop
SleepMs == 500

\* longest list of Earned records in RawData.now, then and fallback
MaxEarned == 2

\* decimal places big.js keeps in a division.  The library's default is 20;
\* the numbers of the model are machine integers, so the model divides to DP
\* places and draws amounts with up to DP + 1 decimals, and what is stated
\* about rounding is stated relative to DP.
DP == 1

----------------------------------------------------------------------------
(* Strings are sequences of one-character strings, so that length, parsing *)
(* and formatting are computed and not assumed.                            *)

RECURSIVE Join(_, _)
\* Array.prototype.join: the items separated by sep
Join(items, sep) ==
    IF Len(items) = 0 THEN <<>>
    ELSE IF Len(items) = 1 THEN items[1]
    ELSE items[1] \o sep \o Join(Tail(items), sep)

----------------------------------------------------------------------------
(* fetchClient: values *)

Hashes == {"h1", "h2"}

Msgs == {"m1", "m2"}

\* TxResult: what the post promise resolves with (msgs vary in the failed
\* results, which are the ones whose msgs are read, and txhash in the others)
TxResults ==
    { [success |-> TRUE, msgs |-> "m1", txhash |-> h] : h \in Hashes }
        \cup { [success |-> FALSE, msgs |-> m, txhash |-> "h1"] : m \in Msgs }

NoTxResult == [success |-> FALSE, msgs |-> "none", txhash |-> "none"]

\* RawLog of a record: a string, or an array of strings
RawLogs ==
    { [isArray |-> FALSE, items |-> << <<"o", "o", "g">> >>],
      [isArray |-> TRUE,  items |-> << <<"a">>, <<"b">> >>] }

\* RawLog.toString(): a string is itself, an array is its items joined by ","
toString(rawLog) ==
    IF rawLog.isArray THEN Join(rawLog.items, <<",">>) ELSE rawLog.items[1]

TxInfo == [Success : BOOLEAN, RawLog : RawLogs]

InfoLists == UNION { [1..n -> TxInfo] : n \in 0..MaxInfos }

NoError == [name |-> "none", message |-> <<>>]

\* the stopSignal argument of fetchClient
stopSignal == [name |-> "stopSignal", message |-> <<>>]

\* new TxError(msgs)
TxError(msgs) == [name |-> "TxError", message |-> msgs]

\* new Error(message)
Error(message) == [name |-> "Error", message |-> message]

NoReturn == [txResult |-> NoTxResult, txInfos |-> <<>>]

Ev(name, arg) == [ev |-> name, arg |-> arg]

\* the log keeps the first MaxLog calls
Record(l, e) == IF Len(l) < MaxLog THEN Append(l, e) ELSE l

----------------------------------------------------------------------------
(* fetchClient: the code *)

\* mutant of findFail: the last failing record instead of the first
findFail_Last(infos) ==
    IF \E i \in 1..Len(infos) : ~infos[i].Success
    THEN CHOOSE i \in 1..Len(infos) :
             /\ ~infos[i].Success
             /\ \A j \in (i + 1)..Len(infos) : infos[j].Success
    ELSE 0

\* txInfos.find(({ Success }) => !Success): the first failing record, by index
\* (0 when there is none)
findFail(infos) ==
    IF \E i \in 1..Len(infos) : ~infos[i].Success
    THEN CHOOSE i \in 1..Len(infos) :
             /\ ~infos[i].Success
             /\ \A j \in 1..(i - 1) : infos[j].Success
    ELSE 0

\* what the indexer answers to a query for hash h
Response(h) == IF h = txResult.txhash THEN indexer ELSE <<>>

\* the number of queryTxInfo calls in a log
Queries(l) == Len(SelectSeq(l, LAMBDA e : e.ev = "query"))

\* mutant of LoopHead: the poll gives up after two queries
LoopHead_Bounded(l, tx) ==
    IF aborted \/ Queries(l) >= 2
    THEN /\ pc' = "thrown"
         /\ error' = stopSignal
         /\ log' = l
         /\ queriedHash' = queriedHash
    ELSE /\ pc' = "query"
         /\ error' = error
         /\ log' = Record(l, Ev("query", tx.txhash))
         /\ queriedHash' = tx.txhash

\* mutant of LoopHead: inProgressUpdate is called inside the loop
LoopHead_ProgressInLoop(l, tx) ==
    IF aborted
    THEN /\ pc' = "thrown"
         /\ error' = stopSignal
         /\ log' = l
         /\ queriedHash' = queriedHash
    ELSE /\ pc' = "query"
         /\ error' = error
         /\ log' = Record(Record(l, Ev("progress", tx)), Ev("query", tx.txhash))
         /\ queriedHash' = tx.txhash

\* mutant of LoopHead: the abort signal is not checked
LoopHead_NoAbortCheck(l, tx) ==
    /\ pc' = "query"
    /\ error' = error
    /\ log' = Record(l, Ev("query", tx.txhash))
    /\ queriedHash' = tx.txhash

\* the head of the while loop: the abort check, then the queryTxInfo call
LoopHead(l, tx) ==
    IF aborted
    THEN /\ pc' = "thrown"
         /\ error' = stopSignal
         /\ log' = l
         /\ queriedHash' = queriedHash
    ELSE /\ pc' = "query"
         /\ error' = error
         /\ log' = Record(l, Ev("query", tx.txhash))
         /\ queriedHash' = tx.txhash

\* mutant of PostResolve: inProgressUpdate is called before the success check
PostResolve_ProgressFirst(r) ==
    /\ pc = "post"
    /\ txResult' = r
    /\ IF ~r.success
       THEN /\ pc' = "thrown"
            /\ error' = TxError(r.msgs)
            /\ log' = Record(log, Ev("progress", r))
            /\ UNCHANGED queriedHash
       ELSE LoopHead(Record(log, Ev("progress", r)), r)
    /\ UNCHANGED <<aborted, txInfos, indexer, ret>>
    /\ UNCHANGED earnVars
    /\ UNCHANGED sellVars

\* the awaited post resolves with r: the success check, inProgressUpdate,
\* and the first pass through the loop head
PostResolve(r) ==
    /\ pc = "post"
    /\ txResult' = r
    /\ IF ~r.success
       THEN /\ pc' = "thrown"
            /\ error' = TxError(r.msgs)
            /\ UNCHANGED <<log, queriedHash>>
       ELSE LoopHead(Record(log, Ev("progress", r)), r)
    /\ UNCHANGED <<aborted, txInfos, indexer, ret>>
    /\ UNCHANGED earnVars
    /\ UNCHANGED sellVars

\* the post promise rejects: the await throws what it rejected with
PostReject ==
    /\ pc = "post"
    /\ pc' = "thrown"
    /\ error' = [name |-> "PostRejected", message |-> <<>>]
    /\ UNCHANGED <<aborted, txResult, txInfos, queriedHash, indexer, log, ret>>
    /\ UNCHANGED earnVars
    /\ UNCHANGED sellVars

\* stopWithAbortSignal(post, signal) rejects because the signal aborted
PostStopped ==
    /\ pc = "post"
    /\ aborted
    /\ pc' = "thrown"
    /\ error' = [name |-> "AbortRejected", message |-> <<>>]
    /\ UNCHANGED <<aborted, txResult, txInfos, queriedHash, indexer, log, ret>>
    /\ UNCHANGED earnVars
    /\ UNCHANGED sellVars

\* mutant of AfterQuery: the records are not checked for failure
AfterQuery_NoFailCheck(infos) ==
    IF Len(infos) > 0
    THEN /\ pc' = "returned"
         /\ ret' = [txResult |-> txResult, txInfos |-> infos]
         /\ UNCHANGED <<error, log>>
    ELSE /\ pc' = "sleep"
         /\ log' = Record(log, Ev("sleep", SleepMs))
         /\ UNCHANGED <<error, ret>>

\* mutant of AfterQuery: a list counts as indexed only with more than one record
AfterQuery_MoreThanOne(infos) ==
    IF Len(infos) > 1
    THEN IF findFail(infos) # 0
         THEN /\ pc' = "thrown"
              /\ error' = Error(toString(infos[findFail(infos)].RawLog))
              /\ UNCHANGED <<ret, log>>
         ELSE /\ pc' = "returned"
              /\ ret' = [txResult |-> txResult, txInfos |-> infos]
              /\ UNCHANGED <<error, log>>
    ELSE /\ pc' = "sleep"
         /\ log' = Record(log, Ev("sleep", SleepMs))
         /\ UNCHANGED <<error, ret>>

\* mutant of AfterQuery: an empty list goes back to the loop head with no sleep
AfterQuery_NoSleep(infos) ==
    IF Len(infos) > 0
    THEN IF findFail(infos) # 0
         THEN /\ pc' = "thrown"
              /\ error' = Error(toString(infos[findFail(infos)].RawLog))
              /\ UNCHANGED <<ret, log>>
         ELSE /\ pc' = "returned"
              /\ ret' = [txResult |-> txResult, txInfos |-> infos]
              /\ UNCHANGED <<error, log>>
    ELSE /\ pc' = "query"
         /\ log' = Record(log, Ev("query", txResult.txhash))
         /\ UNCHANGED <<error, ret>>

\* what follows a resolved query with result infos
AfterQuery(infos) ==
    IF Len(infos) > 0
    THEN IF findFail(infos) # 0
         THEN /\ pc' = "thrown"
              /\ error' = Error(toString(infos[findFail(infos)].RawLog))
              /\ UNCHANGED <<ret, log>>
         ELSE /\ pc' = "returned"
              /\ ret' = [txResult |-> txResult, txInfos |-> infos]
              /\ UNCHANGED <<error, log>>
    ELSE /\ pc' = "sleep"
         /\ log' = Record(log, Ev("sleep", SleepMs))
         /\ UNCHANGED <<error, ret>>

\* the awaited queryTxInfo resolves with what the indexer holds now
QueryResolve ==
    /\ pc = "query"
    /\ txInfos' = Response(queriedHash)
    /\ AfterQuery(Response(queriedHash))
    /\ UNCHANGED <<aborted, txResult, queriedHash, indexer>>
    /\ UNCHANGED earnVars
    /\ UNCHANGED sellVars

\* the awaited queryTxInfo rejects (a network error): the await throws it
QueryReject ==
    /\ pc = "query"
    /\ pc' = "thrown"
    /\ error' = [name |-> "QueryRejected", message |-> <<>>]
    /\ UNCHANGED <<aborted, txResult, txInfos, queriedHash, indexer, log, ret>>
    /\ UNCHANGED earnVars
    /\ UNCHANGED sellVars

\* the sleep timer fires: back to the head of the loop
SleepDone ==
    /\ pc = "sleep"
    /\ LoopHead(log, txResult)
    /\ UNCHANGED <<aborted, txResult, txInfos, indexer, ret>>
    /\ UNCHANGED earnVars
    /\ UNCHANGED sellVars

----------------------------------------------------------------------------
(* fetchClient: the environment *)

\* the caller aborts the signal
Abort ==
    /\ ~aborted
    /\ aborted' = TRUE
    /\ log' = Record(log, Ev("abort", 0))
    /\ UNCHANGED <<pc, txResult, txInfos, queriedHash, indexer, error, ret>>
    /\ UNCHANGED earnVars
    /\ UNCHANGED sellVars

\* the indexer's records of the transaction change (observed by fetchClient
\* only while it runs)
IndexerUpdate(infos) ==
    /\ pc \notin {"returned", "thrown"}
    /\ infos # indexer
    /\ indexer' = infos
    /\ UNCHANGED <<pc, aborted, txResult, txInfos, queriedHash, log, error, ret>>
    /\ UNCHANGED earnVars
    /\ UNCHANGED sellVars

----------------------------------------------------------------------------
Pending == [kind |-> "pending", value |-> <<>>]

NoRawData == [none |-> TRUE]

NoSale == [none |-> TRUE]

PendingSale == [kind |-> "pending", value |-> <<>>, tax |-> <<>>]

FetchInit ==
    /\ pc = "post"
    /\ aborted = FALSE
    /\ txResult = NoTxResult
    /\ txInfos = <<>>
    /\ queriedHash = "none"
    /\ indexer = <<>>
    /\ log = <<>>
    /\ error = NoError
    /\ ret = NoReturn

Init ==
    /\ FetchInit
    /\ rawData = NoRawData
    /\ earned = Pending
    /\ saleArgs = NoSale
    /\ sold = PendingSale

Next ==
    \/ \E r \in TxResults : PostResolve(r)
    \/ PostReject
    \/ PostStopped
    \/ QueryResolve
    \/ QueryReject
    \/ SleepDone
    \/ Abort
    \/ \E infos \in InfoLists : IndexerUpdate(infos)

Spec == Init /\ [][Next]_vars

\* every query settles and every sleep ends
FairSpec ==
    /\ Spec
    /\ WF_vars(QueryResolve \/ QueryReject)
    /\ WF_vars(SleepDone)

----------------------------------------------------------------------------
(* big.js decimals.  A Big is a fraction n / d with d a power of ten; a     *)
(* failed operation is a value with ok FALSE that names the error thrown.   *)

Digits == <<"0", "1", "2", "3", "4", "5", "6", "7", "8", "9">>

IsDigit(c) == \E i \in 1..10 : Digits[i] = c

DigitVal(c) == (CHOOSE i \in 1..10 : Digits[i] = c) - 1

AllDigits(s) == \A i \in 1..Len(s) : IsDigit(s[i])

RECURSIVE DigitsVal(_)
\* the number a sequence of digits writes (0 for the empty sequence)
DigitsVal(s) ==
    IF Len(s) = 0 THEN 0
    ELSE DigitsVal(SubSeq(s, 1, Len(s) - 1)) * 10 + DigitVal(s[Len(s)])

RECURSIVE Pow10(_)
Pow10(k) == IF k = 0 THEN 1 ELSE 10 * Pow10(k - 1)

RECURSIVE ToDigits(_)
\* the decimal digits of a natural number
ToDigits(n) ==
    IF n < 10 THEN <<Digits[n + 1]>>
    ELSE ToDigits(n \div 10) \o <<Digits[(n % 10) + 1]>>

Big(n, d) == [ok |-> TRUE, n |-> n, d |-> d, err |-> <<>>]

Failed(err) == [ok |-> FALSE, n |-> 0, d |-> 1, err |-> err]

\* [big.js] Invalid number
BigError == <<"B", "i", "g">>

\* reading a property of undefined
TypeError == <<"T", "y", "p", "e">>

\* big(s): s must match -?(\d+(\.\d*)?|\.\d+); anything else throws
big(s) ==
    LET neg  == Len(s) > 0 /\ s[1] = "-"
        body == IF neg THEN Tail(s) ELSE s
        sign == IF neg THEN -1 ELSE 1
        dots == {i \in 1..Len(body) : body[i] = "."}
    IN  IF dots = {}
        THEN IF Len(body) > 0 /\ AllDigits(body)
             THEN Big(sign * DigitsVal(body), 1)
             ELSE Failed(BigError)
        ELSE IF Cardinality(dots) = 1
        THEN LET p    == CHOOSE i \in dots : TRUE
                 int  == SubSeq(body, 1, p - 1)
                 frac == SubSeq(body, p + 1, Len(body))
             IN  IF AllDigits(int) /\ AllDigits(frac) /\ Len(int) + Len(frac) > 0
                 THEN Big(sign * (DigitsVal(int) * Pow10(Len(frac)) + DigitsVal(frac)),
                          Pow10(Len(frac)))
                 ELSE Failed(BigError)
        ELSE Failed(BigError)

\* a.mul(s), a.minus(s), a.plus(s): the argument is converted with big(s)
mul(a, s) ==
    IF ~a.ok THEN a
    ELSE IF ~big(s).ok THEN big(s)
    ELSE Big(a.n * big(s).n, a.d * big(s).d)

minus(a, s) ==
    IF ~a.ok THEN a
    ELSE IF ~big(s).ok THEN big(s)
    ELSE Big(a.n * big(s).d - big(s).n * a.d, a.d * big(s).d)

plus(a, s) ==
    IF ~a.ok THEN a
    ELSE IF ~big(s).ok THEN big(s)
    ELSE Big(a.n * big(s).d + big(s).n * a.d, a.d * big(s).d)

\* floor of @anchor-protocol/big-math: the largest integer not above a
floor(a) == IF ~a.ok THEN a ELSE Big(a.n \div a.d, 1)

RECURSIVE Strip(_, _)
\* n / d without trailing zeros in the fraction: <<n, number of decimals>>
Strip(n, d) ==
    IF d > 1 /\ n % 10 = 0 THEN Strip(n \div 10, d \div 10) ELSE <<n, d>>

RECURSIVE Pad(_, _)
\* digits padded on the left with zeros to width w
Pad(digits, w) == IF Len(digits) >= w THEN digits ELSE Pad(<<"0">> \o digits, w)

RECURSIVE Log10(_)
Log10(d) == IF d <= 1 THEN 0 ELSE 1 + Log10(d \div 10)

\* a.toFixed(): normal notation, no exponent
toFixed(a) ==
    LET nd   == Strip(a.n, a.d)
        abs  == IF nd[1] < 0 THEN -nd[1] ELSE nd[1]
        sign == IF nd[1] < 0 THEN <<"-">> ELSE <<>>
        int  == ToDigits(abs \div nd[2])
        frac == Pad(ToDigits(abs % nd[2]), Log10(nd[2]))
    IN  IF nd[2] = 1 THEN sign \o int ELSE sign \o int \o <<".">> \o frac

----------------------------------------------------------------------------
(* dataMap.interestEarned: values *)

\* an optional array (now?: Earned[]) and an array element that may be undefined
Some(v) == [defined |-> TRUE, val |-> v]

Undefined == [defined |-> FALSE, val |-> <<>>]

\* list[0]
At0(list) == IF Len(list) >= 1 THEN Some(list[1]) ELSE Undefined

Earned(balance, currentDeposit, totalDeposit, totalWithdraw) ==
    [CurrentAnchorBalance |-> balance, CurrentDeposit |-> currentDeposit,
     TotalDeposit |-> totalDeposit, TotalWithdraw |-> totalWithdraw]

\* the records drawn for RawData.now
NowRecords ==
    { Earned(b, <<"9">>, <<"4">>, w) :
          b \in {<<>>, <<"3">>, <<"x">>}, w \in {<<"2">>, <<"x">>} }

\* the records drawn for RawData.then
ThenRecords ==
    { Earned(<<"8">>, d, <<"4">>, <<"2">>) : d \in {<<"1">>, <<"6">>, <<"x">>} }

\* the records drawn for RawData.fallback
FallbackRecords ==
    { Earned(<<"8">>, d, <<"4">>, <<"2">>) : d \in {<<"0">>, <<"5">>} }

ExchangeRates ==
    { [StableDenom |-> "uusd", ExchangeRate |-> r] :
          r \in {<<"1", ".", "5">>, <<"2">>, <<"x">>} }

ListsOf(S, max) == UNION { [1..n -> S] : n \in 0..max }

RawDatas ==
    [ latestExchangeRate : ListsOf(ExchangeRates, 1),
      fallback : ListsOf(FallbackRecords, 1),
      now : {Undefined} \cup { Some(l) : l \in ListsOf(NowRecords, MaxEarned) },
      then : {Undefined} \cup { Some(l) : l \in ListsOf(ThenRecords, MaxEarned) } ]

Value(s) == [kind |-> "value", value |-> s]

Throw(err) == [kind |-> "throw", value |-> err]

----------------------------------------------------------------------------
(* dataMap.interestEarned: the code *)

\* mutant of referenceThen: `then` is used only when it has more than one element
referenceThen_MoreThanOne(raw) ==
    IF raw.then.defined /\ Len(raw.then.val) > 1
    THEN At0(raw.then.val)
    ELSE At0(raw.fallback)

\* then && then.length >= 1 ? then[0] : fallback[0]
referenceThen(raw) ==
    IF raw.then.defined /\ Len(raw.then.val) >= 1
    THEN At0(raw.then.val)
    ELSE At0(raw.fallback)

\* big(CurrentAnchorBalance or '0').mul(latestExchangeRate[0].ExchangeRate)
currentTokenValue(referenceNow, latestExchangeRate) ==
    LET balance == big(IF Len(referenceNow.CurrentAnchorBalance) > 0
                       THEN referenceNow.CurrentAnchorBalance
                       ELSE <<"0">>)
    IN  IF ~balance.ok THEN balance
        ELSE IF ~At0(latestExchangeRate).defined THEN Failed(TypeError)
        ELSE mul(balance, latestExchangeRate[1].ExchangeRate)

\* the body of the try block
tryInterest(value, refThen, referenceNow) ==
    IF ~refThen.defined THEN Failed(TypeError)
    ELSE floor(minus(plus(minus(value, refThen.val.CurrentDeposit),
                          referenceNow.TotalWithdraw),
                     referenceNow.TotalDeposit))

interestEarned(raw) ==
    IF ~raw.now.defined \/ Len(raw.now.val) = 0
    THEN Value(<<"0">>)
    ELSE LET referenceNow == raw.now.val[1]
             value == currentTokenValue(referenceNow, raw.latestExchangeRate)
             floored == tryInterest(value, referenceThen(raw), referenceNow)
         IN  IF ~value.ok THEN Throw(value.err)
             ELSE IF floored.ok THEN Value(toFixed(floored))
             ELSE Value(<<"0">>)

\* useMap(_data, dataMap): the map is applied to the query's data
Compute ==
    /\ earned = Pending
    /\ earned' = interestEarned(rawData)
    /\ UNCHANGED rawData
    /\ UNCHANGED fetchVars
    /\ UNCHANGED sellVars

EarnInit ==
    /\ FetchInit
    /\ rawData \in RawDatas
    /\ earned = Pending
    /\ saleArgs = NoSale
    /\ sold = PendingSale

EarnNext == Compute

EarnSpec == EarnInit /\ [][EarnNext]_vars

----------------------------------------------------------------------------
(* sellFromSimulation: big.js operations on two Bigs *)

\* [big.js] Division by zero
DivError == <<"D", "i", "v">>

\* a.div(b): the quotient rounded half up (away from zero) to DP decimals;
\* a zero divisor throws
divBig(a, b) ==
    IF ~a.ok THEN a
    ELSE IF ~b.ok THEN b
    ELSE IF b.n = 0 THEN Failed(DivError)
    ELSE LET num  == a.n * b.d * Pow10(DP)
             den  == a.d * b.n
             sign == IF (num < 0) # (den < 0) THEN -1 ELSE 1
             an   == IF num < 0 THEN -num ELSE num
             ad   == IF den < 0 THEN -den ELSE den
         IN  Big(sign * ((2 * an + ad) \div (2 * ad)), Pow10(DP))

\* a.minus(b), a.plus(b), a.mul(b) with b a Big
minusBig(a, b) ==
    IF ~a.ok THEN a
    ELSE IF ~b.ok THEN b
    ELSE Big(a.n * b.d - b.n * a.d, a.d * b.d)

plusBig(a, b) ==
    IF ~a.ok THEN a
    ELSE IF ~b.ok THEN b
    ELSE Big(a.n * b.d + b.n * a.d, a.d * b.d)

mulBig(a, b) ==
    IF ~a.ok THEN a
    ELSE IF ~b.ok THEN b
    ELSE Big(a.n * b.n, a.d * b.d)

\* min of @anchor-protocol/big-math: the smaller of a and big(s)
min(a, s) ==
    IF ~a.ok THEN a
    ELSE IF ~big(s).ok THEN big(s)
    ELSE IF a.n * big(s).d <= big(s).n * a.d THEN a ELSE big(s)

\* Number.prototype.toString of the literal 0.1
MaxSpreadLiteral == <<"0", ".", "1">>

\* Big.prototype.toString: normal notation for the magnitudes of the model
\* (exponential notation starts below 1e-7 and from 1e21)
bigToString(a) == toFixed(a)

----------------------------------------------------------------------------
(* sellFromSimulation: values *)

\* the amount with DP + 1 decimals: 0.0...06
FineAmount == <<"0", ".">> \o [i \in 1..DP |-> "0"] \o <<"6">>

Amounts == {<<"0">>, <<"7">>, <<"2", "0">>, <<"1", "2", ".", "5">>, FineAmount}

Simulations ==
    [ return_amount : {<<"0">>, <<"9">>, <<"4", "0">>},
      commission_amount : {<<"1">>, <<"3">>},
      spread_amount : {<<"2">>, <<"5">>} ]

TaxDatas ==
    [ taxRate : {<<"0">>, <<"0", ".", "1">>, <<"0", ".", "2", "5">>},
      maxTaxUUSD : {<<"0">>, <<"1">>, <<"3">>} ]

SaleArgs ==
    [ simulation : Simulations,
      amount : Amounts,
      tax : TaxDatas,
      fixedGas : {<<"0">>, <<"2">>} ]

----------------------------------------------------------------------------
(* sellFromSimulation: the code *)

\* mutant of taxOf: the tax is not capped by maxTaxUUSD
taxOf_NoCap(amount, taxRate, maxTaxUUSD) ==
    minusBig(big(amount), divBig(big(amount), plus(big(<<"1">>), taxRate)))

\* min(big(amount).minus(big(amount).div(big(1).plus(taxRate))), maxTaxUUSD)
taxOf(amount, taxRate, maxTaxUUSD) ==
    min(minusBig(big(amount), divBig(big(amount), plus(big(<<"1">>), taxRate))),
        maxTaxUUSD)

\* the outcome of sellFromSimulation: the returned TradeSimulation (with the
\* local constant tax beside it), or the error thrown
sellFromSimulation(simulation, amount, taxData, fixedGas) ==
    LET beliefPrice     == divBig(big(amount), big(simulation.return_amount))
        maxSpread       == MaxSpreadLiteral
        tax             == taxOf(amount, taxData.taxRate, taxData.maxTaxUUSD)
        expectedAmount  == minusBig(big(simulation.return_amount), tax)
        rate            == minus(big(<<"1">>), maxSpread)
        minimumReceived == mulBig(expectedAmount, rate)
        swapFee         == plus(big(simulation.commission_amount),
                                simulation.spread_amount)
        txFee           == plus(tax, fixedGas)
        fromAmount      == mulBig(big(amount), beliefPrice)
    IN  IF ~beliefPrice.ok
        THEN [kind |-> "throw", value |-> beliefPrice.err, tax |-> <<>>]
        ELSE IF ~tax.ok
        THEN [kind |-> "throw", value |-> tax.err, tax |-> <<>>]
        ELSE IF ~minimumReceived.ok
        THEN [kind |-> "throw", value |-> minimumReceived.err, tax |-> <<>>]
        ELSE IF ~swapFee.ok
        THEN [kind |-> "throw", value |-> swapFee.err, tax |-> <<>>]
        ELSE IF ~txFee.ok
        THEN [kind |-> "throw", value |-> txFee.err, tax |-> <<>>]
        ELSE [kind |-> "value",
              value |-> [return_amount     |-> simulation.return_amount,
                         commission_amount |-> simulation.commission_amount,
                         spread_amount     |-> simulation.spread_amount,
                         minimumReceived   |-> toFixed(minimumReceived),
                         swapFee           |-> toFixed(swapFee),
                         beliefPrice       |-> toFixed(beliefPrice),
                         maxSpread         |-> maxSpread,
                         txFee             |-> toFixed(txFee),
                         fromAmount        |-> bigToString(fromAmount)],
              tax |-> toFixed(tax)]

\* a caller applies sellFromSimulation to its arguments
Sell ==
    /\ sold.kind = "pending"
    /\ sold' = sellFromSimulation(saleArgs.simulation, saleArgs.amount,
                                  saleArgs.tax, saleArgs.fixedGas)
    /\ UNCHANGED saleArgs
    /\ UNCHANGED fetchVars
    /\ UNCHANGED earnVars

SellInit ==
    /\ FetchInit
    /\ rawData = NoRawData
    /\ earned = Pending
    /\ saleArgs \in SaleArgs
    /\ sold = PendingSale

SellNext == Sell

SellSpec == SellInit /\ [][SellNext]_vars

----------------------------------------------------------------------------
(* Claims about fetchClient *)

Terminated == pc \in {"returned", "thrown"}

\* the calls fetchClient made, without the environment's abort events
Calls == SelectSeq(log, LAMBDA e : e.ev # "abort")

Has(l, name) == \E i \in 1..Len(l) : l[i].ev = name

\* C1: fetchClient returns {txResult, txInfos} only when the post succeeded
\* and the last indexer query, made for txResult.result.txhash, returned a
\* non-empty list whose records all have Success true; the returned txResult
\* is the post's result and the returned txInfos is that last query result.
C1_SuccessOnlyWhenIndexed ==
    (pc = "returned" \/ ret # NoReturn) =>
        /\ pc = "returned"
        /\ txResult # NoTxResult
        /\ txResult.success
        /\ ret.txResult = txResult
        /\ ret.txInfos = txInfos
        /\ queriedHash = txResult.txhash
        /\ Len(txInfos) > 0
        /\ \A i \in 1..Len(txInfos) : txInfos[i].Success

\* C1 witness: a success return of two records after at least one empty poll
C1_Witness ==
    /\ pc = "returned"
    /\ Len(ret.txInfos) = 2
    /\ Has(log, "sleep")

\* C2 as stated: the poll is a bounded retry, so in every run fetchClient
\* eventually stops polling for good.
C2_BoundedRetry == <>[](pc \notin {"query", "sleep"})

\* C2 amended: the poll has no retry bound.  fetchClient leaves the loop from
\* a settled query only when the result is non-empty or the query rejected,
\* and from a finished sleep only when the abort signal is set (throwing
\* stopSignal); a finished sleep with the signal not set always issues the
\* next query, whatever the number of queries made so far.
C2_StopsOnlyOnResultOrAbort ==
    [][ /\ (pc = "query" /\ Terminated') =>
               (Len(txInfos') > 0 \/ error'.name = "QueryRejected")
        /\ (pc = "sleep" /\ Terminated') => (aborted /\ error' = stopSignal)
        /\ (pc = "sleep" /\ pc' # "sleep" /\ ~aborted) => pc' = "query"
      ]_vars

\* C2 witness: a third query in flight, the signal not set
C2_Witness ==
    /\ pc = "query"
    /\ ~aborted
    /\ Queries(log) >= 3

\* C3: when a query returned a non-empty list with a failing record,
\* fetchClient has thrown an Error whose message is the RawLog of the first
\* failing record in list order, has returned nothing, and (being terminated)
\* issues no further query.
C3_FirstFailureThrown ==
    (Len(txInfos) > 0 /\ \E i \in 1..Len(txInfos) : ~txInfos[i].Success) =>
        /\ pc = "thrown"
        /\ ret = NoReturn
        /\ error.name = "Error"
        /\ \E i \in 1..Len(txInfos) :
               /\ ~txInfos[i].Success
               /\ \A j \in 1..(i - 1) : txInfos[j].Success
               /\ error.message = toString(txInfos[i].RawLog)

\* C3 witness: two failing records with different RawLogs
C3_Witness ==
    /\ pc = "thrown"
    /\ error.name = "Error"
    /\ Len(txInfos) = 2
    /\ ~txInfos[1].Success
    /\ ~txInfos[2].Success
    /\ txInfos[1].RawLog # txInfos[2].RawLog

\* C4: when the post resolved with success false, fetchClient has thrown
\* TxError(txResult.msgs) and made no inProgressUpdate call, no indexer query
\* and no sleep.
C4_FailedPostThrowsTxError ==
    (txResult # NoTxResult /\ ~txResult.success) =>
        /\ pc = "thrown"
        /\ error = TxError(txResult.msgs)
        /\ Calls = <<>>
        /\ queriedHash = "none"
        /\ txInfos = <<>>

\* C4 witness: a failed post with msgs m2
C4_Witness ==
    /\ pc = "thrown"
    /\ txResult # NoTxResult
    /\ ~txResult.success
    /\ error.name = "TxError"
    /\ error.message = "m2"

\* C5: if the post succeeds, the abort signal is never set, no query rejects,
\* and the indexer eventually holds (for good) or returns a non-empty list
\* for the transaction, then fetchClient eventually returns or throws the
\* failure Error.
C5_PollTerminates ==
    ( /\ []~aborted
      /\ [](error.name # "QueryRejected")
      /\ <>(txResult.success)
      /\ (<>[](Len(indexer) > 0) \/ <>(Len(txInfos) > 0)) )
    => <>(pc = "returned" \/ (pc = "thrown" /\ error.name = "Error"))

\* C5 witness: the failure Error thrown after an empty poll, signal not set
C5_Witness ==
    /\ pc = "thrown"
    /\ error.name = "Error"
    /\ ~aborted
    /\ Has(log, "sleep")

\* C6: in the order of calls, every query that is followed by anything is
\* followed by one sleep of 500 ms, and every sleep that is followed by
\* anything is followed by a query, so no two queries are adjacent and no two
\* sleeps are; a query that returned a non-empty list ends fetchClient, and
\* while fetchClient sleeps the last result is empty.
C6_SleepBetweenQueries ==
    /\ \A i \in 1..(Len(Calls) - 1) :
           /\ Calls[i].ev = "query" =>
                  (Calls[i + 1].ev = "sleep" /\ Calls[i + 1].arg = SleepMs)
           /\ Calls[i].ev = "sleep" => Calls[i + 1].ev = "query"
    /\ Len(txInfos) > 0 => Terminated
    /\ pc = "sleep" => txInfos = <<>>
    /\ (pc = "sleep" /\ Len(log) < MaxLog) => Calls[Len(Calls)].ev = "sleep"
    /\ (pc = "query" /\ Len(log) < MaxLog) => Calls[Len(Calls)].ev = "query"

\* C6 witness: two sleeps made, the third query in flight
C6_Witness ==
    /\ pc = "query"
    /\ Len(SelectSeq(log, LAMBDA e : e.ev = "sleep")) = 2
    /\ Queries(log) = 3

\* C7: inProgressUpdate is called at most once; it is called exactly once,
\* with the post's txResult, iff the post resolved with success true; the
\* call comes after the post resolved and before every indexer query.
C7_ProgressOnce ==
    LET progress == SelectSeq(log, LAMBDA e : e.ev = "progress")
    IN  /\ Len(progress) <= 1
        /\ Len(progress) = 1 <=> (txResult # NoTxResult /\ txResult.success)
        /\ Len(progress) = 1 => (progress[1].arg = txResult /\ pc # "post")
        /\ \A i \in 1..Len(Calls) :
               Calls[i].ev = "query" =>
                   \E j \in 1..(i - 1) : Calls[j].ev = "progress"
        /\ \A i \in 1..Len(Calls) : Calls[i].ev = "progress" => i = 1

\* C7 witness: the update was made and two queries followed it
C7_Witness ==
    /\ Len(Calls) >= 4
    /\ Calls[1].ev = "progress"
    /\ Calls[1].arg.txhash = "h2"
    /\ Queries(log) = 2

\* C8: once the abort signal is set, no step of fetchClient starts an indexer
\* query; a sleep that ends, or a successful post that resolves, with the
\* signal set throws stopSignal.
C8_NoQueryAfterAbort ==
    [][ aborted =>
          /\ ~(pc' = "query" /\ pc # "query")
          /\ (pc = "sleep" /\ pc' # "sleep") =>
                 (pc' = "thrown" /\ error' = stopSignal)
          /\ (pc = "post" /\ pc' # "post" /\ txResult'.success) =>
                 (pc' = "thrown" /\ error' = stopSignal)
      ]_vars

\* C8 witness: stopSignal thrown after an abort that came during the poll
C8_Witness ==
    /\ pc = "thrown"
    /\ error = stopSignal
    /\ \E i \in 1..Len(log) :
           /\ log[i].ev = "abort"
           /\ \E j \in 1..(i - 1) : log[j].ev = "query"

----------------------------------------------------------------------------
(* Claims about dataMap.interestEarned *)

\* the record the claim calls N, and the one it calls T
ClaimN == rawData.now.val[1]

ClaimT ==
    IF rawData.then.defined /\ Len(rawData.then.val) >= 1
    THEN rawData.then.val[1]
    ELSE rawData.fallback[1]

\* `now` is missing or empty
NowEmpty == ~rawData.now.defined \/ Len(rawData.now.val) = 0

\* every record the formula reads is there
RecordsPresent ==
    /\ ~NowEmpty
    /\ Len(rawData.latestExchangeRate) >= 1
    /\ (rawData.then.defined /\ Len(rawData.then.val) >= 1) \/ Len(rawData.fallback) >= 1

\* every field the formula reads is a decimal number
FieldsNumeric ==
    /\ ClaimN.CurrentAnchorBalance = <<>> \/ big(ClaimN.CurrentAnchorBalance).ok
    /\ big(rawData.latestExchangeRate[1].ExchangeRate).ok
    /\ big(ClaimT.CurrentDeposit).ok
    /\ big(ClaimN.TotalWithdraw).ok
    /\ big(ClaimN.TotalDeposit).ok

\* C9: the result is '0' when `now` is missing or empty; otherwise, when the
\* records and numbers the formula reads are there, it is the integer k with
\* k <= B * R - T.CurrentDeposit + N.TotalWithdraw - N.TotalDeposit < k + 1,
\* where B is N.CurrentAnchorBalance (0 when that is the empty string), R is
\* latestExchangeRate[0].ExchangeRate, and T is then[0] when `then` has an
\* element and fallback[0] otherwise.
C9_InterestFormula ==
    earned # Pending =>
        /\ NowEmpty => earned = Value(<<"0">>)
        /\ (RecordsPresent /\ FieldsNumeric) =>
               LET B == IF ClaimN.CurrentAnchorBalance = <<>>
                        THEN Big(0, 1)
                        ELSE big(ClaimN.CurrentAnchorBalance)
                   R == big(rawData.latestExchangeRate[1].ExchangeRate)
                   C == big(ClaimT.CurrentDeposit)
                   W == big(ClaimN.TotalWithdraw)
                   D == big(ClaimN.TotalDeposit)
                   den == B.d * R.d * C.d * W.d * D.d
                   num == B.n * R.n * C.d * W.d * D.d
                          - C.n * B.d * R.d * W.d * D.d
                          + W.n * B.d * R.d * C.d * D.d
                          - D.n * B.d * R.d * C.d * W.d
                   k == big(earned.value)
               IN  /\ earned.kind = "value"
                   /\ k.ok
                   /\ k.d = 1
                   /\ ~(\E i \in 1..Len(earned.value) : earned.value[i] = ".")
                   /\ k.n * den <= num
                   /\ num < (k.n + 1) * den

\* C9 witness: `then` has two different records and fallback one; the value
\* 3 * 1.5 - 6 + 2 - 4 = -3.5 has floor -4
C9_Witness ==
    /\ earned = Value(<<"-", "4">>)
    /\ rawData.then.defined
    /\ Len(rawData.then.val) = 2
    /\ rawData.then.val[1].CurrentDeposit # rawData.then.val[2].CurrentDeposit
    /\ Len(rawData.fallback) = 1

\* C10: interestEarned never throws: every call yields a uUST string, and
\* the string is '0' whenever a required record is missing or a field is not
\* a number.
C10_Total ==
    earned # Pending =>
        /\ earned.kind = "value"
        /\ (~RecordsPresent \/ ~FieldsNumeric) => earned = Value(<<"0">>)

----------------------------------------------------------------------------
(* Claims about sellFromSimulation *)

\* the number of decimals a decimal string is written with
Decimals(str) ==
    IF \E i \in 1..Len(str) : str[i] = "."
    THEN Len(str) - (CHOOSE i \in 1..Len(str) : str[i] = ".")
    ELSE 0

\* two Bigs are the same number
SameValue(a, b) == Strip(a.n, a.d) = Strip(b.n, b.d)

\* the tax of the call, as a number
SaleTax == big(sold.tax)

\* amount - amount / (1 + taxRate), the quotient rounded half up to DP decimals
SaleUncapped ==
    LET A   == big(saleArgs.amount)
        T   == big(saleArgs.tax.taxRate)
        num == A.n * T.d * Pow10(DP)
        den == A.d * (T.d + T.n)
        q   == (2 * num + den) \div (2 * den)
    IN  Big(A.n * Pow10(DP) - q * A.d, A.d * Pow10(DP))

\* tax = min(amount - amount / (1 + taxRate), maxTaxUUSD), tax <= maxTaxUUSD,
\* txFee = tax + fixedGas, minimumReceived = (return_amount - tax) * (1 - 0.1),
\* swapFee = commission_amount + spread_amount, maxSpread = 0.1
SaleFormulas ==
    LET out == sold.value
        M   == big(saleArgs.tax.maxTaxUUSD)
        G   == big(saleArgs.fixedGas)
        R   == big(saleArgs.simulation.return_amount)
        C   == big(saleArgs.simulation.commission_amount)
        S   == big(saleArgs.simulation.spread_amount)
        U   == SaleUncapped
        tax == SaleTax
    IN  /\ tax.ok
        /\ \/ SameValue(tax, U) /\ U.n * M.d <= M.n * U.d
           \/ SameValue(tax, M) /\ M.n * U.d <= U.n * M.d
        /\ tax.n * M.d <= M.n * tax.d
        /\ SameValue(big(out.txFee), Big(tax.n * G.d + G.n * tax.d, tax.d * G.d))
        /\ SameValue(big(out.minimumReceived),
                     Big((R.n * tax.d - tax.n * R.d) * 9, R.d * tax.d * 10))
        /\ SameValue(big(out.swapFee), Big(C.n * S.d + S.n * C.d, C.d * S.d))
        /\ out.maxSpread = <<"0", ".", "1">>

\* the inputs the claim is about: amount >= 0 and taxRate >= 0 (and a cap
\* that is not negative)
SaleInputsNonNegative ==
    /\ big(saleArgs.amount).n >= 0
    /\ big(saleArgs.tax.taxRate).n >= 0
    /\ big(saleArgs.tax.maxTaxUUSD).n >= 0

\* C11 as stated: for every amount >= 0 and taxRate >= 0 the returned
\* simulation has tax = min(amount - amount / (1 + taxRate), maxTaxUUSD) with
\* 0 <= tax <= maxTaxUUSD, txFee = tax + fixedGas,
\* minimumReceived = (return_amount - tax) * (1 - 0.1),
\* swapFee = commission_amount + spread_amount and maxSpread = 0.1.
C11_TaxCapped ==
    (sold.kind = "value" /\ SaleInputsNonNegative) =>
        /\ SaleFormulas
        /\ SaleTax.n >= 0

\* C11 amended: the same, with 0 <= tax only for an amount written with no
\* more decimals than the division keeps (every whole uUST amount is one);
\* the quotient amount / (1 + taxRate) is rounded half up to that many
\* decimals, and with a finer amount it can round to more than the amount.
C11_TaxCappedForCoarseAmounts ==
    (sold.kind = "value" /\ SaleInputsNonNegative) =>
        /\ SaleFormulas
        /\ Decimals(saleArgs.amount) <= DP => SaleTax.n >= 0

\* C11 witness: amount 20 at rate 0.25 has tax 4, capped to maxTaxUUSD 3
C11_Witness ==
    /\ sold.kind = "value"
    /\ saleArgs.amount = <<"2", "0">>
    /\ saleArgs.tax.taxRate = <<"0", ".", "2", "5">>
    /\ saleArgs.tax.maxTaxUUSD = <<"3">>
    /\ sold.tax = <<"3">>
    /\ saleArgs.fixedGas = <<"2">>
    /\ sold.value.txFee = <<"5">>

====
